---- MODULE Spec2Model ----
(***************************************************************************)
(* Model of the store back end: the order service (PedidoService) and the   *)
(* category, product and customer services whose rows it reads and writes. *)
(* The relational store is a record of tables; every service method is a   *)
(* function from the store and the request to an outcome (store written so *)
(* far, error, returned id), and prisma.$transaction commits the written   *)
(* store or discards it.                                                   *)
(***************************************************************************)
EXTENDS Integers, Sequences, FiniteSets, TLC

\* ------------------------------------------------------------------ bounds
MaxProdutos == 2    \* product rows ever created
MaxClientes == 1    \* customer rows ever created
MaxPedidos  == 1    \* order ids the sequence hands out
MaxItemIds  == 2    \* order line ids the sequence hands out
MaxItens    == 2    \* length of a submitted list of lines
MaxQtd      == 2    \* submitted quantity of a line
MaxEstoque  == 2    \* stock submitted to product create / update
MaxPreco    == 2    \* price submitted to product create / update
TetoEstoque == 3    \* requests that would raise a stock above it are not made

\* Bounds of the customer behaviours (SpecClientes).
CliClientes == 2    \* customer rows ever created
CliPedidos  == 2    \* order ids the sequence hands out

\* Bounds of the catalogue behaviours (SpecCatalogo).
CatProdutos   == 2  \* product rows ever created
CatCategorias == 2  \* category rows ever created
CatPedidos    == 2  \* order ids the sequence hands out
CatItemIds    == 3  \* order line ids the sequence hands out

\* Bounds of the scenario behaviours (SpecCenario).
CenarioPedidos == 2 \* order ids the sequence hands out
CenarioItemIds == 3 \* order line ids the sequence hands out

\* Bounds of the inventory behaviours (SpecEstoque).
EstProdutos == 2    \* product rows ever created
EstTeto     == 3    \* adjustments that would raise a stock above it are not made
MaxDelta    == 2    \* size of a submitted adjustment

\* Bounds of the two-order behaviours (SpecDois).
DoisPedidos == 2    \* order ids the sequence hands out
DoisItemIds == 3    \* order line ids the sequence hands out
DoisEstoque == 3    \* stock of the product

\* Bounds of the status behaviours (SpecStatus).
StPedidos == 2      \* order ids the sequence hands out
StItemIds == 3      \* order line ids the sequence hands out
StEstoque == 3      \* stock of the product

\* Bounds of the behaviours with calls side by side (SpecLadoALado).
LadoPedidos == 2    \* order ids the sequence hands out
LadoItemIds == 3    \* order line ids the sequence hands out
LadoEstoque == 2    \* stock the product is created with
LadoTeto    == 3    \* calls that would raise the stock above it are not made

\* ------------------------------------------------------------ value spaces
Status == {"PENDENTE", "PAGO", "PROCESSANDO", "ENVIADO", "ENTREGUE", "CANCELADO"}

\* The statuses the model submits together with a list of lines.
StatusComItens == {"CANCELADO"}

\* An optional field: absent (<<>>) or present (<<v>>).
Opt(S) == {<<>>} \cup {<<v>> : v \in S}

ProdutoIds == 1..MaxProdutos
ClienteIds == 1..MaxClientes
PedidoIds  == 1..MaxPedidos
ItemIds    == 1..MaxItemIds

SeqAte(S, n) == UNION {[1..k -> S] : k \in 0..n}

\* --------------------------------------------------------- table helpers
Put(f, k, v) == [x \in (DOMAIN f) \cup {k} |-> IF x = k THEN v ELSE f[x]]
Del(f, k)    == [x \in (DOMAIN f) \ {k} |-> f[x]]

\* banco   the store: tables produtos, clientes, pedidos, itens and the id
\*         sequences of the tables
\* chamada the request being answered: the request, the store before the
\*         handler ran and the handler's response
\* origem  history: per order, the stock of every product just before the
\*         order was created, kept while no product request succeeded
\* rastreio whether the behaviour records origem (fixed by the initial state)
\* limites how many rows of each table the behaviour creates and the highest
\*         stock it lets a product reach (fixed by the initial state)
\* emCurso the service calls that run side by side: per task, nothing, or a
\*         call that has read the store and not yet written, or a call that
\*         has returned
VARIABLES banco, chamada, origem, rastreio, limites, emCurso

vars == <<banco, chamada, origem, rastreio, limites, emCurso>>

Resultado(db, err, ret) == [db |-> db, err |-> err, ret |-> ret]

\* ----------------------------------------------------- store primitives
\* Mutant of DecrementarEstoque: the stock falls by one whatever the quantity.
DecrementarUm(db, produtoId, n) ==
  [db EXCEPT !.produtos[produtoId].estoque = @ - 1]

\* tx.produto.update({ data: { estoque: { decrement: n } } })
DecrementarEstoque(db, produtoId, n) ==
  [db EXCEPT !.produtos[produtoId].estoque = @ - n]

\* tx.produto.update({ data: { estoque: { increment: n } } })
IncrementarEstoque(db, produtoId, n) ==
  [db EXCEPT !.produtos[produtoId].estoque = @ + n]

\* tx.pedidoItem.create: the line takes the next id of the sequence.
CriarItem(db, pedidoId, produtoId, quantidade) ==
  [db EXCEPT !.itens = Put(@, db.seqItem,
                           [pedidoId |-> pedidoId, produtoId |-> produtoId,
                            quantidade |-> quantidade]),
             !.seqItem = @ + 1]

\* The line ids of an order (the `items` relation of findById).
ItensDoPedido(db, pedidoId) ==
  {i \in DOMAIN db.itens : db.itens[i].pedidoId = pedidoId}

RECURSIVE SomaSemQuantidade(_, _)
\* Mutant of SomaItens: the prices are summed without the quantities.
SomaSemQuantidade(db, ids) ==
  IF ids = {} THEN 0
  ELSE LET i == CHOOSE x \in ids : TRUE
       IN  db.produtos[db.itens[i].produtoId].preco
           + SomaSemQuantidade(db, ids \ {i})

RECURSIVE SomaItens(_, _)
\* itens.reduce((soma, item) => soma + item.produto.preco * item.quantidade, 0)
SomaItens(db, ids) ==
  IF ids = {} THEN 0
  ELSE LET i == CHOOSE x \in ids : TRUE
       IN  db.produtos[db.itens[i].produtoId].preco * db.itens[i].quantidade
           + SomaItens(db, ids \ {i})

\* findMany({ where: { pedidoId } }) + reduce + tx.pedido.update({ data: { total } })
RecalcularTotal(db, pedidoId) ==
  [db EXCEPT !.pedidos[pedidoId].total = SomaItens(db, ItensDoPedido(db, pedidoId))]

\* Mutant of Transaction: the writes made before the throw are kept.
TransactionSemRollback(db, out) == out

\* prisma.$transaction: the writes of a callback that throws are discarded;
\* the id sequences of the store are not transactional and keep their value.
Transaction(db, out) ==
  IF out.err = "ok" THEN out
  ELSE Resultado([db EXCEPT !.seqPedido = out.db.seqPedido,
                            !.seqItem = out.db.seqItem],
                 out.err, out.ret)

\* ------------------------------------------------------------ error values
ErrCliente       == "Cliente nao encontrado"
ErrProduto       == "Produto nao encontrado"
ErrPedido        == "Pedido nao encontrado"
ErrSoPendentes   == "So e possivel excluir pedidos PENDENTES"
\* create names the product and carries the available and requested quantity
ErrEstoqueCreate == "Estoque insuficiente para o produto <nome>. Disponivel: <estoque> unidades | Solicitado: <quantidade> unidades"
ErrEstoqueUpdate == "Estoque insuficiente"
ErrCategoria     == "Categoria nao encontrada"
ErrCategoriaNome == "Categoria com este nome ja existe"
ErrCategoriaComProdutos == "Nao e possivel excluir categoria com produtos associados"
ErrProdutoComPedidos    == "Nao e possivel excluir produto com pedidos associados"
ErrClienteComPedidos    == "Nao e possivel excluir cliente com pedidos associados"
ErrEmail         == "Email ja cadastrado"
ErrCpf           == "CPF ja cadastrado"

\* a statement that names a row that is gone, or a parent row that is gone
ErrRegistro      == "Registro nao encontrado"

EstoqueInsuficiente(err) == err \in {ErrEstoqueCreate, ErrEstoqueUpdate}

\* What an error message tells about the product: create interpolates
\* produto.nome, produto.estoque and item.quantidade, update's two throws
\* carry a fixed text.
CamposDaMensagem(err) ==
  IF err = ErrEstoqueCreate THEN {"nome", "disponivel", "solicitado"} ELSE {}

\* ------------------------------------------------- PedidoService.create
\* Mutant of ValidarEstoque: only the first line is checked.
ValidarSoPrimeiro(db, items, i) ==
  IF i > Len(items) \/ i > 1 THEN "ok"
  ELSE IF items[i].produtoId \notin DOMAIN db.produtos THEN ErrProduto
  ELSE IF db.produtos[items[i].produtoId].estoque < items[i].quantidade
       THEN ErrEstoqueCreate
  ELSE "ok"

RECURSIVE ValidarEstoque(_, _, _)
\* First loop of create: every line is checked against the stored stock,
\* before anything is written; the first line that fails decides the error.
ValidarEstoque(db, items, i) ==
  IF i > Len(items) THEN "ok"
  ELSE IF items[i].produtoId \notin DOMAIN db.produtos THEN ErrProduto
  ELSE IF db.produtos[items[i].produtoId].estoque < items[i].quantidade
       THEN ErrEstoqueCreate
  ELSE ValidarEstoque(db, items, i + 1)

RECURSIVE CriarItens(_, _, _, _)
\* Second loop of create: one line row and one stock decrement per line.
CriarItens(db, pedidoId, items, i) ==
  IF i > Len(items) THEN db
  ELSE CriarItens(
         DecrementarEstoque(
           CriarItem(db, pedidoId, items[i].produtoId, items[i].quantidade),
           items[i].produtoId, items[i].quantidade),
         pedidoId, items, i + 1)

\* Mutant of CriarPedidoRow: the order goes to some customer of the store.
CriarPedidoRowDeAlguem(db, clienteId) ==
  [db EXCEPT !.pedidos = Put(@, db.seqPedido,
                             [clienteId |-> CHOOSE c \in DOMAIN db.clientes : TRUE,
                              status |-> "PENDENTE", total |-> 0]),
             !.seqPedido = @ + 1]

\* tx.pedido.create: status PENDENTE, total left at the column default.
CriarPedidoRow(db, clienteId) ==
  [db EXCEPT !.pedidos = Put(@, db.seqPedido,
                             [clienteId |-> clienteId, status |-> "PENDENTE",
                              total |-> 0]),
             !.seqPedido = @ + 1]

\* Mutant of PedidoCreateTx: the customer is not looked up.
PedidoCreateTxSemCliente(db, data) ==
  LET v == ValidarEstoque(db, data.items, 1) IN
  IF v # "ok" THEN Resultado(db, v, 0)
  ELSE LET id  == db.seqPedido
           db1 == CriarPedidoRow(db, data.clienteId)
           db2 == CriarItens(db1, id, data.items, 1)
       IN  Resultado(RecalcularTotal(db2, id), "ok", id)

\* The transaction callback of create.
PedidoCreateTx(db, data) ==
  IF data.clienteId \notin DOMAIN db.clientes THEN Resultado(db, ErrCliente, 0)
  ELSE LET v == ValidarEstoque(db, data.items, 1) IN
       IF v # "ok" THEN Resultado(db, v, 0)
       ELSE LET id  == db.seqPedido
                db1 == CriarPedidoRow(db, data.clienteId)
                db2 == CriarItens(db1, id, data.items, 1)
            IN  Resultado(RecalcularTotal(db2, id), "ok", id)

PedidoCreate(db, data) == Transaction(db, PedidoCreateTx(db, data))

\* create when other transactions commit between its reads and its writes:
\* the customer lookup and the stock checks saw the store `antes`, the
\* inserts and the decrements run on the store `db`. An insert whose
\* customer or product is gone throws.
PedidoCreateDe(db, antes, data) ==
  IF data.clienteId \notin DOMAIN antes.clientes THEN Resultado(db, ErrCliente, 0)
  ELSE LET v == ValidarEstoque(antes, data.items, 1) IN
       IF v # "ok" THEN Resultado(db, v, 0)
       ELSE IF \/ data.clienteId \notin DOMAIN db.clientes
               \/ \E i \in 1..Len(data.items) :
                    data.items[i].produtoId \notin DOMAIN db.produtos
         THEN Resultado(db, ErrRegistro, 0)
       ELSE LET id  == db.seqPedido
                db1 == CriarPedidoRow(db, data.clienteId)
                db2 == CriarItens(db1, id, data.items, 1)
            IN  Resultado(RecalcularTotal(db2, id), "ok", id)

\* ------------------------------------------------- PedidoService.update
\* Mutant of ItensAtuais: the lines of every order are taken.
ItensDeTodos(antes, pedidoId) == DOMAIN antes.itens

\* itensAtuais = pedido.items: the lines of the order findById read.
ItensAtuais(antes, pedidoId) == ItensDoPedido(antes, pedidoId)

\* validated.items.filter(i => i.id).map(i => i.id)
IdsEnviados(items) ==
  {items[i].id[1] : i \in {j \in 1..Len(items) : items[j].id # <<>>}}

\* Mutant of IdsParaRemover: no line is taken for removed.
NenhumParaRemover(idsAtuais, items) == {}

\* idsAtuais.filter(idItem => !idsEnviados.includes(idItem))
IdsParaRemover(idsAtuais, items) == idsAtuais \ IdsEnviados(items)

RECURSIVE RemoverItens(_, _, _)
\* For every removed line: give its quantity back, then delete the row.
\* `antes` is the order as findById read it; produto.update of a product
\* that is gone and pedidoItem.delete of a line that is gone throw.
RemoverItens(db, antes, ids) ==
  IF ids = {} THEN Resultado(db, "ok", 0)
  ELSE LET r   == CHOOSE x \in ids : TRUE
           db1 == IncrementarEstoque(db, antes.itens[r].produtoId,
                                     antes.itens[r].quantidade)
       IN  IF antes.itens[r].produtoId \notin DOMAIN db.produtos
             THEN Resultado(db, ErrRegistro, r)
           ELSE IF r \notin DOMAIN db1.itens
             THEN Resultado(db1, ErrRegistro, r)
           ELSE RemoverItens([db1 EXCEPT !.itens = Del(@, r)], antes, ids \ {r})

\* Mutant of Diff: the operands are swapped.
DiffInvertido(quantidade, existente) == existente.quantidade - quantidade

\* diff = item.quantidade - existente.quantidade
Diff(quantidade, existente) == quantidade - existente.quantidade

\* diff > 0 && produto.estoque < diff
FaltaEstoqueDiff(estoque, diff) == diff > 0 /\ estoque < diff

\* Mutant of ProdutoDoMantido: the submitted product id is used.
ProdutoEnviado(item, existente) == item.produtoId

\* The product of a kept line: findUnique and update name existente.produtoId.
ProdutoDoMantido(item, existente) == existente.produtoId

RECURSIVE ProcessarItens(_, _, _, _, _)
\* The create-or-update loop over the submitted lines, in request order.
\* `existente` comes from the lines findById read before the transaction;
\* pedidoItem.create for an order that is gone and pedidoItem.update of a
\* line that is gone throw.
ProcessarItens(db, antes, pedidoId, items, i) ==
  IF i > Len(items) THEN Resultado(db, "ok", pedidoId)
  ELSE
    LET item  == items[i]
        achou == /\ item.id # <<>>
                 /\ item.id[1] \in ItensAtuais(antes, pedidoId)
    IN
    IF ~achou THEN
      IF item.produtoId \notin DOMAIN db.produtos
        THEN Resultado(db, ErrProduto, pedidoId)
      ELSE IF db.produtos[item.produtoId].estoque < item.quantidade
        THEN Resultado(db, ErrEstoqueUpdate, pedidoId)
      ELSE IF pedidoId \notin DOMAIN db.pedidos
        THEN Resultado(db, ErrRegistro, pedidoId)
      ELSE ProcessarItens(
             DecrementarEstoque(
               CriarItem(db, pedidoId, item.produtoId, item.quantidade),
               item.produtoId, item.quantidade),
             antes, pedidoId, items, i + 1)
    ELSE
      LET existente == antes.itens[item.id[1]]
          diff      == Diff(item.quantidade, existente)
          produtoId == ProdutoDoMantido(item, existente)
      IN
      IF produtoId \notin DOMAIN db.produtos
        THEN Resultado(db, ErrProduto, pedidoId)
      ELSE IF FaltaEstoqueDiff(db.produtos[produtoId].estoque, diff)
        THEN Resultado(db, ErrEstoqueUpdate, pedidoId)
      ELSE IF item.id[1] \notin DOMAIN db.itens
        THEN Resultado(db, ErrRegistro, pedidoId)
      ELSE ProcessarItens(
             DecrementarEstoque(
               [db EXCEPT !.itens[item.id[1]].quantidade = item.quantidade],
               produtoId, diff),
             antes, pedidoId, items, i + 1)

\* Mutant of AtualizarStatus: only a PENDENTE order takes a new status.
StatusSoDePendente(db, id, status) ==
  IF db.pedidos[id].status = "PENDENTE"
    THEN [db EXCEPT !.pedidos[id].status = status]
    ELSE db

\* tx.pedido.update({ where: { id }, data: { status } })
AtualizarStatus(db, id, status) == [db EXCEPT !.pedidos[id].status = status]

\* Mutant of PedidoUpdateTx: the submitted lines are checked and applied
\* before the removed lines return their stock.
PedidoUpdateTxRemoveDepois(db, antes, id, data) ==
  IF data.status # <<>> /\ id \notin DOMAIN db.pedidos
    THEN Resultado(db, ErrRegistro, id)
  ELSE
  LET db1 == IF data.status # <<>>
               THEN AtualizarStatus(db, id, data.status[1])
               ELSE db
  IN
  IF data.items = <<>> THEN Resultado(db1, "ok", id)
  ELSE LET items == data.items[1]
           out   == ProcessarItens(db1, antes, id, items, 1)
       IN  IF out.err # "ok" THEN out
           ELSE LET rem == RemoverItens(out.db, antes,
                              IdsParaRemover(ItensAtuais(antes, id), items))
                IN  IF rem.err # "ok" THEN rem
                    ELSE Resultado(RecalcularTotal(rem.db, id), "ok", id)

\* The transaction callback of update; `antes` is the store findById read
\* before the transaction, `db` the store the statements run on. A
\* pedido.update of an order that is gone throws.
PedidoUpdateTx(db, antes, id, data) ==
  IF data.status # <<>> /\ id \notin DOMAIN db.pedidos
    THEN Resultado(db, ErrRegistro, id)
  ELSE
  LET db1 == IF data.status # <<>>
               THEN AtualizarStatus(db, id, data.status[1])
               ELSE db
  IN
  IF data.items = <<>> THEN Resultado(db1, "ok", id)
  ELSE LET items == data.items[1]
           rem   == RemoverItens(db1, antes,
                                 IdsParaRemover(ItensAtuais(antes, id), items))
       IN  IF rem.err # "ok" THEN rem
           ELSE LET out == ProcessarItens(rem.db, antes, id, items, 1)
                IN  IF out.err # "ok" THEN out
                    ELSE IF id \notin DOMAIN out.db.pedidos
                      THEN Resultado(out.db, ErrRegistro, id)
                    ELSE Resultado(RecalcularTotal(out.db, id), "ok", id)

\* Mutant of PedidoUpdate: lines are only reconciled for a PENDENTE order.
PedidoUpdateSoPendente(db, id, data) ==
  IF id \notin DOMAIN db.pedidos THEN Resultado(db, ErrPedido, id)
  ELSE IF data.items # <<>> /\ db.pedidos[id].status # "PENDENTE"
    THEN Resultado(db, ErrSoPendentes, id)
  ELSE Transaction(db, PedidoUpdateTx(db, db, id, data))

PedidoUpdate(db, id, data) ==
  IF id \notin DOMAIN db.pedidos THEN Resultado(db, ErrPedido, id)
  ELSE Transaction(db, PedidoUpdateTx(db, db, id, data))

\* update when other transactions commit between findById, which saw the
\* store `antes`, and the transaction, which runs on the store `db`.
PedidoUpdateDe(db, antes, id, data) ==
  IF id \notin DOMAIN antes.pedidos THEN Resultado(db, ErrPedido, id)
  ELSE Transaction(db, PedidoUpdateTx(db, antes, id, data))

\* ------------------------------------------------- PedidoService.delete
\* Mutant of PodeExcluir: the status is not looked at.
PodeExcluirSempre(pedido) == TRUE

\* pedido.status !== 'PENDENTE' throws
PodeExcluir(pedido) == pedido.status = "PENDENTE"

\* Mutant of DevolverEstoque: the lines' quantities are not given back.
DevolverNada(db, antes, ids) == db

RECURSIVE DevolverEstoque(_, _, _)
\* for (const item of pedido.items) increment the product's stock
DevolverEstoque(db, antes, ids) ==
  IF ids = {} THEN db
  ELSE LET r == CHOOSE x \in ids : TRUE
       IN  DevolverEstoque(
             IncrementarEstoque(db, antes.itens[r].produtoId,
                                antes.itens[r].quantidade),
             antes, ids \ {r})

\* tx.pedidoItem.deleteMany({ where: { pedidoId } })
DeleteManyItens(db, pedidoId) ==
  [db EXCEPT !.itens = [x \in (DOMAIN @) \ ItensDoPedido(db, pedidoId) |-> @[x]]]

\* The transaction callback of delete; `antes` is the store findById read
\* before the transaction, `db` the store the statements run on. A
\* produto.update of a product that is gone and a pedido.delete of an order
\* that is gone throw.
PedidoDeleteTx(db, antes, id) ==
  LET db1 == DevolverEstoque(db, antes, ItensDoPedido(antes, id))
      db2 == DeleteManyItens(db1, id)
  IN  IF \E l \in ItensDoPedido(antes, id) :
           antes.itens[l].produtoId \notin DOMAIN db.produtos
        THEN Resultado(db, ErrRegistro, id)
      ELSE IF id \notin DOMAIN db2.pedidos THEN Resultado(db2, ErrRegistro, id)
      ELSE Resultado([db2 EXCEPT !.pedidos = Del(@, id)], "ok", id)

PedidoDelete(db, id) ==
  IF id \notin DOMAIN db.pedidos THEN Resultado(db, ErrPedido, id)
  ELSE IF ~PodeExcluir(db.pedidos[id]) THEN Resultado(db, ErrSoPendentes, id)
  ELSE Transaction(db, PedidoDeleteTx(db, db, id))

\* delete when other transactions commit between findById and the status
\* test, which saw the store `antes`, and the transaction, which runs on
\* the store `db`.
PedidoDeleteDe(db, antes, id) ==
  IF id \notin DOMAIN antes.pedidos THEN Resultado(db, ErrPedido, id)
  ELSE IF ~PodeExcluir(antes.pedidos[id]) THEN Resultado(db, ErrSoPendentes, id)
  ELSE Transaction(db, PedidoDeleteTx(db, antes, id))

\* ------------------------------------------------------- ProdutoService
\* if (validatedData.categoriaId) findUnique: a submitted category must exist
CategoriaExiste(db, data) ==
  data.categoriaId = <<>> \/ data.categoriaId[1] \in DOMAIN db.categorias

\* create: the row takes the submitted stock (>= 0), price (> 0) and category.
ProdutoCreate(db, data) ==
  IF ~CategoriaExiste(db, data) THEN Resultado(db, ErrCategoria, 0)
  ELSE Resultado([db EXCEPT !.produtos = Put(@, db.seqProduto,
                                             [estoque |-> data.estoque,
                                              preco |-> data.preco,
                                              categoriaId |-> data.categoriaId]),
                            !.seqProduto = @ + 1],
                 "ok", db.seqProduto)

\* update: only the submitted fields are written.
ProdutoUpdate(db, id, data) ==
  IF id \notin DOMAIN db.produtos THEN Resultado(db, ErrProduto, id)
  ELSE IF ~CategoriaExiste(db, data) THEN Resultado(db, ErrCategoria, id)
  ELSE Resultado(
         [db EXCEPT !.produtos[id] =
            [estoque |-> IF data.estoque # <<>> THEN data.estoque[1] ELSE @.estoque,
             preco   |-> IF data.preco # <<>> THEN data.preco[1] ELSE @.preco,
             categoriaId |-> IF data.categoriaId # <<>> THEN data.categoriaId
                             ELSE @.categoriaId]],
         "ok", id)

\* Mutant of ItensDoProduto: the lines are not counted.
ItensDoProdutoNenhum(db, id) == {}

\* prisma.pedidoItem.count({ where: { produtoId: id } })
ItensDoProduto(db, id) == {i \in DOMAIN db.itens : db.itens[i].produtoId = id}

\* delete: refused while an order line names the product.
ProdutoDelete(db, id) ==
  IF id \notin DOMAIN db.produtos THEN Resultado(db, ErrProduto, id)
  ELSE IF Cardinality(ItensDoProduto(db, id)) > 0
    THEN Resultado(db, ErrProdutoComPedidos, id)
  ELSE Resultado([db EXCEPT !.produtos = Del(@, id)], "ok", id)

\* Mutant of NovoEstoque: the submitted quantity is taken for the new stock.
NovoEstoqueAbsoluto(estoque, quantidade) == quantidade

\* novoEstoque = produto.estoque + quantidade
NovoEstoque(estoque, quantidade) == estoque + quantidade

\* prisma.produto.update({ where: { id }, data: { estoque: novoEstoque } }):
\* the row takes the computed value; a row that is gone makes update throw.
GravarEstoque(db, id, novoEstoque) ==
  IF id \notin DOMAIN db.produtos THEN Resultado(db, ErrRegistro, id)
  ELSE Resultado([db EXCEPT !.produtos[id].estoque = novoEstoque], "ok", id)

\* updateEstoque: `antes` is the store findById read, `db` the store the
\* update statement writes to.
ProdutoUpdateEstoqueDe(db, antes, id, quantidade) ==
  IF id \notin DOMAIN antes.produtos THEN Resultado(db, ErrProduto, id)
  ELSE LET novoEstoque == NovoEstoque(antes.produtos[id].estoque, quantidade) IN
       IF novoEstoque < 0 THEN Resultado(db, ErrEstoqueUpdate, id)
       ELSE GravarEstoque(db, id, novoEstoque)

\* updateEstoque with nothing between its read and its write.
ProdutoUpdateEstoque(db, id, quantidade) ==
  ProdutoUpdateEstoqueDe(db, db, id, quantidade)

\* ----------------------------------------------------- CategoriaService
\* prisma.categoria.findUnique({ where: { nome } })
CategoriaComNome(db, nome) == {c \in DOMAIN db.categorias : db.categorias[c].nome = nome}

CategoriaCreate(db, data) ==
  IF CategoriaComNome(db, data.nome) # {} THEN Resultado(db, ErrCategoriaNome, 0)
  ELSE Resultado([db EXCEPT !.categorias = Put(@, db.seqCategoria, [nome |-> data.nome]),
                            !.seqCategoria = @ + 1],
                 "ok", db.seqCategoria)

\* Mutant of ProdutosDaCategoria: the products are not counted.
ProdutosDaCategoriaNenhum(db, id) == {}

\* prisma.produto.count({ where: { categoriaId: id } })
ProdutosDaCategoria(db, id) ==
  {p \in DOMAIN db.produtos : db.produtos[p].categoriaId = <<id>>}

\* prisma.categoria.delete: produtos_categoriaId_fkey is ON DELETE SET NULL.
ApagarCategoria(db, id) ==
  [db EXCEPT !.categorias = Del(@, id),
             !.produtos = [p \in DOMAIN @ |->
                             IF @[p].categoriaId = <<id>>
                               THEN [@[p] EXCEPT !.categoriaId = <<>>]
                               ELSE @[p]]]

\* delete: refused while a product names the category.
CategoriaDelete(db, id) ==
  IF id \notin DOMAIN db.categorias THEN Resultado(db, ErrCategoria, id)
  ELSE IF Cardinality(ProdutosDaCategoria(db, id)) > 0
    THEN Resultado(db, ErrCategoriaComProdutos, id)
  ELSE Resultado(ApagarCategoria(db, id), "ok", id)

\* ------------------------------------------------------- ClienteService
\* prisma.cliente.findUnique({ where: { email } }) / ({ where: { cpf } })
ClienteComEmail(db, email) == {c \in DOMAIN db.clientes : db.clientes[c].email = email}
ClienteComCpf(db, cpf)     == {c \in DOMAIN db.clientes : db.clientes[c].cpf = cpf}

\* Mutant of ClienteCreate: the cpf is not looked up.
ClienteCreateSemCpf(db, data) ==
  IF ClienteComEmail(db, data.email) # {} THEN Resultado(db, ErrEmail, 0)
  ELSE Resultado([db EXCEPT !.clientes = Put(@, db.seqCliente,
                                             [email |-> data.email, cpf |-> data.cpf]),
                            !.seqCliente = @ + 1],
                 "ok", db.seqCliente)

\* create: the email is looked up, then the cpf, then the row is written.
ClienteCreate(db, data) ==
  IF ClienteComEmail(db, data.email) # {} THEN Resultado(db, ErrEmail, 0)
  ELSE IF ClienteComCpf(db, data.cpf) # {} THEN Resultado(db, ErrCpf, 0)
  ELSE Resultado([db EXCEPT !.clientes = Put(@, db.seqCliente,
                                             [email |-> data.email, cpf |-> data.cpf]),
                            !.seqCliente = @ + 1],
                 "ok", db.seqCliente)

\* update: a submitted email or cpf is looked up only when it differs from
\* the customer's own; only the submitted fields are written.
ClienteUpdate(db, id, data) ==
  IF id \notin DOMAIN db.clientes THEN Resultado(db, ErrCliente, id)
  ELSE LET cliente == db.clientes[id] IN
       IF /\ data.email # <<>> /\ data.email[1] # cliente.email
          /\ ClienteComEmail(db, data.email[1]) # {}
         THEN Resultado(db, ErrEmail, id)
       ELSE IF /\ data.cpf # <<>> /\ data.cpf[1] # cliente.cpf
               /\ ClienteComCpf(db, data.cpf[1]) # {}
         THEN Resultado(db, ErrCpf, id)
       ELSE Resultado(
              [db EXCEPT !.clientes[id] =
                 [email |-> IF data.email # <<>> THEN data.email[1] ELSE @.email,
                  cpf   |-> IF data.cpf # <<>> THEN data.cpf[1] ELSE @.cpf]],
              "ok", id)

\* Mutant of PedidosDoCliente: the orders are not counted.
PedidosDoClienteNenhum(db, id) == {}

\* prisma.pedido.count({ where: { clienteId: id } })
PedidosDoCliente(db, id) == {o \in DOMAIN db.pedidos : db.pedidos[o].clienteId = id}

\* delete: refused while an order names the customer.
ClienteDelete(db, id) ==
  IF id \notin DOMAIN db.clientes THEN Resultado(db, ErrCliente, id)
  ELSE IF Cardinality(PedidosDoCliente(db, id)) > 0
    THEN Resultado(db, ErrClienteComPedidos, id)
  ELSE Resultado([db EXCEPT !.clientes = Del(@, id)], "ok", id)

\* ---------------------------------------------------------- request data
ItemCreate == [produtoId : ProdutoIds, quantidade : 1..MaxQtd]
ItemUpdate == [id : Opt(ItemIds), produtoId : ProdutoIds, quantidade : 1..MaxQtd]

PedidoCreateData == [clienteId : ClienteIds, items : SeqAte(ItemCreate, MaxItens)]

\* An update carries a status alone (one of `sos`, or nothing at all) or a
\* list of lines with or without a status of `juntos`.
PedidoUpdateData(sos, juntos) ==
  [status : Opt(sos), items : {<<>>}]
  \cup [status : Opt(juntos), items : {<<l>> : l \in SeqAte(ItemUpdate, MaxItens)}]

Precos    == 1..MaxPreco
PrecoFixo == {1}

\* Products outside every category.
ProdutoCreateData(precos) ==
  [estoque : 0..MaxEstoque, preco : precos, categoriaId : {<<>>}]
ProdutoUpdateData(optPrecos) ==
  [estoque : Opt(0..MaxEstoque), preco : optPrecos, categoriaId : {<<>>}]

Emails == {"ana@loja.com", "bia@loja.com"}
Cpfs   == {"11111111111", "22222222222"}

ClienteCreateData == [email : Emails, cpf : Cpfs]
ClienteUpdateData == [email : Opt(Emails), cpf : Opt(Cpfs)]

\* The one customer of the order workflow behaviours.
ClienteUnico == [email : {"ana@loja.com"}, cpf : {"11111111111"}]

Nomes == {"Livros", "Jogos"}

CategoriaCreateData == [nome : Nomes]

\* ---------------------------------------------------------------- actions
Ocioso == [fase |-> "idle"]

\* The calls that run side by side.
Tarefas == 1..2

Livre == [fase |-> "livre"]

Estoques(d) == [p \in DOMAIN d.produtos |-> d.produtos[p].estoque]

\* The stock before creation is remembered for a created order and
\* forgotten for every order once a product update succeeds.
NovaOrigem(op, out) ==
  IF ~rastreio \/ out.err # "ok" THEN origem
  ELSE IF op = "pedido.create" THEN Put(origem, out.ret, Estoques(banco))
  ELSE IF op = "produto.update" THEN << >>
  ELSE origem

\* The limits of the order workflow behaviours.
Limites ==
  [produtos |-> MaxProdutos, clientes |-> MaxClientes, categorias |-> 0,
   pedidos |-> MaxPedidos, itens |-> MaxItemIds, estoque |-> TetoEstoque]

\* The store holds no more rows than the behaviour creates and no stock
\* above the one it lets a product reach.
DentroDosLimites(db) ==
  /\ db.seqProduto <= limites.produtos + 1
  /\ db.seqCliente <= limites.clientes + 1
  /\ db.seqCategoria <= limites.categorias + 1
  /\ db.seqPedido <= limites.pedidos + 1
  /\ db.seqItem <= limites.itens + 1
  /\ \A p \in DOMAIN db.produtos : db.produtos[p].estoque <= limites.estoque

\* The handler has run: the store is the outcome's store and the call keeps
\* the request, the store before it and the response until it is answered.
\* Requests that would take a sequence past its limit, or a stock past the
\* stock limit, are not made.
Concluir(op, id, req, out) ==
  /\ DentroDosLimites(out.db)
  /\ banco' = out.db
  /\ chamada' = [fase |-> "done", op |-> op, id |-> id, req |-> req,
                 antes |-> banco, err |-> out.err, ret |-> out.ret]
  /\ origem' = NovaOrigem(op, out)
  /\ UNCHANGED <<rastreio, limites, emCurso>>

\* The store after the migration: empty tables, sequences at 1.
Vazio ==
  /\ banco = [produtos |-> << >>, clientes |-> << >>, categorias |-> << >>,
              pedidos |-> << >>, itens |-> << >>,
              seqProduto |-> 1, seqCliente |-> 1, seqCategoria |-> 1,
              seqPedido |-> 1, seqItem |-> 1]
  /\ chamada = Ocioso
  /\ origem = << >>
  /\ emCurso = [t \in Tarefas |-> Livre]

Init == Vazio /\ rastreio = FALSE /\ limites = Limites

InitOrigem == Vazio /\ rastreio = TRUE /\ limites = Limites

CriarCliente(D) ==
  /\ chamada.fase = "idle"
  /\ \E data \in D :
       \E out \in {ClienteCreate(banco, data)} :
         Concluir("cliente.create", 0, data, out)

AtualizarCliente(D) ==
  /\ chamada.fase = "idle"
  /\ \E id \in 1..limites.clientes, data \in D :
       \E out \in {ClienteUpdate(banco, id, data)} :
         Concluir("cliente.update", id, data, out)

ExcluirCliente ==
  /\ chamada.fase = "idle"
  /\ \E id \in 1..limites.clientes :
       \E out \in {ClienteDelete(banco, id)} :
         Concluir("cliente.delete", id, <<>>, out)

CriarCategoria(D) ==
  /\ chamada.fase = "idle"
  /\ \E data \in D :
       \E out \in {CategoriaCreate(banco, data)} :
         Concluir("categoria.create", 0, data, out)

ExcluirCategoria ==
  /\ chamada.fase = "idle"
  /\ \E id \in 1..limites.categorias :
       \E out \in {CategoriaDelete(banco, id)} :
         Concluir("categoria.delete", id, <<>>, out)

CriarProduto(D) ==
  /\ chamada.fase = "idle"
  /\ \E data \in D :
       \E out \in {ProdutoCreate(banco, data)} :
         Concluir("produto.create", 0, data, out)

AtualizarProduto(D) ==
  /\ chamada.fase = "idle"
  /\ \E id \in 1..limites.produtos, data \in D :
       \E out \in {ProdutoUpdate(banco, id, data)} :
         Concluir("produto.update", id, data, out)

ExcluirProduto ==
  /\ chamada.fase = "idle"
  /\ \E id \in 1..limites.produtos :
       \E out \in {ProdutoDelete(banco, id)} :
         Concluir("produto.delete", id, <<>>, out)

CriarPedido(D) ==
  /\ chamada.fase = "idle"
  /\ \E data \in D :
       \E out \in {PedidoCreate(banco, data)} :
         Concluir("pedido.create", 0, data, out)

AtualizarPedido(D) ==
  /\ chamada.fase = "idle"
  /\ \E id \in 1..limites.pedidos, data \in D :
       \E out \in {PedidoUpdate(banco, id, data)} :
         Concluir("pedido.update", id, data, out)

AjustarEstoque(D) ==
  /\ chamada.fase = "idle"
  /\ \E id \in 1..limites.produtos, quantidade \in D :
       \E out \in {ProdutoUpdateEstoque(banco, id, quantidade)} :
         Concluir("produto.estoque", id, quantidade, out)

ExcluirPedido ==
  /\ chamada.fase = "idle"
  /\ \E id \in 1..limites.pedidos :
       \E out \in {PedidoDelete(banco, id)} :
         Concluir("pedido.delete", id, <<>>, out)

\* The response is delivered; the service is ready for the next request.
Responder ==
  /\ chamada.fase = "done"
  /\ chamada' = Ocioso
  /\ UNCHANGED <<banco, origem, rastreio, limites, emCurso>>

\* The order workflow over a catalogue whose prices are all PrecoFixo.
Next ==
  \/ CriarCliente(ClienteUnico)
  \/ CriarProduto(ProdutoCreateData(PrecoFixo))
  \/ AtualizarProduto(ProdutoUpdateData({<<>>}))
  \/ CriarPedido(PedidoCreateData)
  \/ AtualizarPedido(PedidoUpdateData(Status, StatusComItens))
  \/ ExcluirPedido
  \/ Responder

Spec == Init /\ [][Next]_vars

\* The same workflow with prices that change: products are created at full
\* stock with any price, product updates change the price only, and the only
\* status submitted is CANCELADO.
NextPreco ==
  \/ CriarCliente(ClienteUnico)
  \/ CriarProduto([estoque : {MaxEstoque}, preco : Precos, categoriaId : {<<>>}])
  \/ AtualizarProduto([estoque : {<<>>}, preco : Opt(Precos), categoriaId : {<<>>}])
  \/ CriarPedido(PedidoCreateData)
  \/ AtualizarPedido(PedidoUpdateData(StatusComItens, StatusComItens))
  \/ ExcluirPedido
  \/ Responder

SpecPreco == Init /\ [][NextPreco]_vars

\* Spec with the history variable origem recorded.
SpecOrigem == InitOrigem /\ [][Next]_vars

\* The scenario of the order workflow: one customer, one product created
\* with stock 10 and price 5, orders of one line of quantity 3 or 5, updates
\* that submit one line of quantity 3 or 5 with or without a line id.
LimitesCenario ==
  [produtos |-> 1, clientes |-> 1, categorias |-> 0,
   pedidos |-> CenarioPedidos, itens |-> CenarioItemIds, estoque |-> 10]

InitCenario == Vazio /\ rastreio = FALSE /\ limites = LimitesCenario

CenarioCreateData ==
  [clienteId : {1},
   items : {<<[produtoId |-> 1, quantidade |-> q]>> : q \in {3, 5}}]

CenarioUpdateData ==
  [status : {<<>>},
   items : {<< <<[id |-> i, produtoId |-> 1, quantidade |-> q]>> >> :
              i \in Opt(1..CenarioItemIds), q \in {3, 5}}]

NextCenario ==
  \/ CriarCliente(ClienteUnico)
  \/ CriarProduto([estoque : {10}, preco : {5}, categoriaId : {<<>>}])
  \/ CriarPedido(CenarioCreateData)
  \/ AtualizarPedido(CenarioUpdateData)
  \/ ExcluirPedido
  \/ Responder

SpecCenario == InitCenario /\ [][NextCenario]_vars

\* The customers: up to CliClientes customers with any email and cpf, one
\* product, orders of one line for any customer, order updates that carry a
\* status or replace the line.
LimitesClientes ==
  [produtos |-> 1, clientes |-> CliClientes, categorias |-> 0,
   pedidos |-> CliPedidos, itens |-> CliPedidos + 1, estoque |-> CliPedidos]

InitClientes == Vazio /\ rastreio = FALSE /\ limites = LimitesClientes

CliPedidoCreateData ==
  [clienteId : 1..CliClientes, items : {<<[produtoId |-> 1, quantidade |-> 1]>>}]

CliPedidoUpdateData ==
  [status : Opt({"PAGO"}), items : {<<>>}]
  \cup [status : {<<>>},
        items : {<< <<[id |-> <<>>, produtoId |-> 1, quantidade |-> 1]>> >>}]

NextClientes ==
  \/ CriarCliente(ClienteCreateData)
  \/ AtualizarCliente(ClienteUpdateData)
  \/ ExcluirCliente
  \/ CriarProduto([estoque : {CliPedidos}, preco : PrecoFixo, categoriaId : {<<>>}])
  \/ CriarPedido(CliPedidoCreateData)
  \/ AtualizarPedido(CliPedidoUpdateData)
  \/ ExcluirPedido
  \/ Responder

SpecClientes == InitClientes /\ [][NextClientes]_vars

\* The catalogue: categories, products in or out of a category, one
\* customer, orders of one or two lines of quantity 1, order updates that
\* keep one line by its id or replace the lines by one new line.
LimitesCatalogo ==
  [produtos |-> CatProdutos, clientes |-> 1, categorias |-> CatCategorias,
   pedidos |-> CatPedidos, itens |-> CatItemIds, estoque |-> 2]

InitCatalogo == Vazio /\ rastreio = FALSE /\ limites = LimitesCatalogo

CatItem == [produtoId : 1..CatProdutos, quantidade : {1}]

CatPedidoCreateData ==
  [clienteId : {1}, items : {l \in SeqAte(CatItem, 2) : Len(l) >= 1}]

CatPedidoUpdateData ==
  [status : {<<>>},
   items : {<< <<[id |-> i, produtoId |-> p, quantidade |-> 1]>> >> :
              i \in Opt(1..CatItemIds), p \in 1..CatProdutos}]

NextCatalogo ==
  \/ CriarCliente(ClienteUnico)
  \/ CriarCategoria(CategoriaCreateData)
  \/ ExcluirCategoria
  \/ CriarProduto([estoque : {2}, preco : PrecoFixo, categoriaId : Opt(1..CatCategorias)])
  \/ AtualizarProduto([estoque : {<<>>}, preco : {<<>>},
                       categoriaId : Opt(1..CatCategorias)])
  \/ ExcluirProduto
  \/ CriarPedido(CatPedidoCreateData)
  \/ AtualizarPedido(CatPedidoUpdateData)
  \/ ExcluirPedido
  \/ Responder

SpecCatalogo == InitCatalogo /\ [][NextCatalogo]_vars

\* The inventory: up to EstProdutos products of any price, created with
\* stock 0 or 1, and stock adjustments of -MaxDelta..MaxDelta.
LimitesEstoque ==
  [produtos |-> EstProdutos, clientes |-> 0, categorias |-> 0,
   pedidos |-> 0, itens |-> 0, estoque |-> EstTeto]

InitEstoque == Vazio /\ rastreio = FALSE /\ limites = LimitesEstoque

Deltas == (0 - MaxDelta)..MaxDelta

NextEstoque ==
  \/ CriarProduto([estoque : 0..1, preco : Precos, categoriaId : {<<>>}])
  \/ AjustarEstoque(Deltas)
  \/ Responder

SpecEstoque == InitEstoque /\ [][NextEstoque]_vars

\* Two orders: one customer, one product, orders of one line, and updates
\* of one or two lines that carry no id or any line id, the ids of the other
\* order's lines included.
LimitesDois ==
  [produtos |-> 1, clientes |-> 1, categorias |-> 0,
   pedidos |-> DoisPedidos, itens |-> DoisItemIds, estoque |-> DoisEstoque]

InitDois == Vazio /\ rastreio = FALSE /\ limites = LimitesDois

DoisCreateData ==
  [clienteId : {1}, items : {<<[produtoId |-> 1, quantidade |-> q]>> : q \in 1..2}]

DoisItem == [id : Opt(1..DoisItemIds), produtoId : {1}, quantidade : 1..2]

DoisUpdateData ==
  [status : {<<>>}, items : {<<l>> : l \in SeqAte(DoisItem, 2)}]

NextDois ==
  \/ CriarCliente(ClienteUnico)
  \/ CriarProduto([estoque : {DoisEstoque}, preco : PrecoFixo, categoriaId : {<<>>}])
  \/ CriarPedido(DoisCreateData)
  \/ AtualizarPedido(DoisUpdateData)
  \/ ExcluirPedido
  \/ Responder

SpecDois == InitDois /\ [][NextDois]_vars

\* The statuses: one customer, one product, orders of one line, and updates
\* that carry any status or none, alone or with one line.
LimitesStatus ==
  [produtos |-> 1, clientes |-> 1, categorias |-> 0,
   pedidos |-> StPedidos, itens |-> StItemIds, estoque |-> StEstoque]

InitStatus == Vazio /\ rastreio = FALSE /\ limites = LimitesStatus

StCreateData ==
  [clienteId : {1}, items : {<<[produtoId |-> 1, quantidade |-> q]>> : q \in 1..2}]

StUpdateData ==
  [status : Opt(Status),
   items : {<<>>} \cup
           {<< <<[id |-> i, produtoId |-> 1, quantidade |-> q]>> >> :
              i \in Opt(1..StItemIds), q \in 1..2}]

NextStatus ==
  \/ CriarCliente(ClienteUnico)
  \/ CriarProduto([estoque : {StEstoque}, preco : Precos, categoriaId : {<<>>}])
  \/ CriarPedido(StCreateData)
  \/ AtualizarPedido(StUpdateData)
  \/ ExcluirPedido
  \/ Responder

SpecStatus == InitStatus /\ [][NextStatus]_vars

\* ------------------------------------------------- calls side by side
\* No call is between its reads and its writes, none waits to be released.
TodasLivres == \A t \in Tarefas : emCurso[t] = Livre

\* Task t starts a call: the reads the service makes before it writes
\* (findById outside the transaction, the lookups and stock checks of
\* create) see the store as it is now.
Iniciar(t, Ops) ==
  /\ chamada.fase = "idle"
  /\ emCurso[t] = Livre
  /\ \E c \in Ops :
       emCurso' = [emCurso EXCEPT ![t] =
                     [fase |-> "lido", op |-> c.op, id |-> c.id, req |-> c.req,
                      antes |-> banco]]
  /\ UNCHANGED <<banco, chamada, origem, rastreio, limites>>

\* What the call of a task does to the store db, which other calls may have
\* changed since the task read `antes`.
Executar(c, db) ==
  CASE c.op = "pedido.create"   -> Transaction(db, PedidoCreateDe(db, c.antes, c.req))
    [] c.op = "pedido.update"   -> PedidoUpdateDe(db, c.antes, c.id, c.req)
    [] c.op = "pedido.delete"   -> PedidoDeleteDe(db, c.antes, c.id)
    [] c.op = "produto.estoque" -> ProdutoUpdateEstoqueDe(db, c.antes, c.id, c.req)

\* The call of task t writes, commits and returns: its writes apply to the
\* store as it is now. The task keeps the request, what it had read, the
\* store it wrote on, the store it left and the response.
Finalizar(t) ==
  /\ emCurso[t].fase = "lido"
  /\ \E out \in {Executar(emCurso[t], banco)} :
       /\ DentroDosLimites(out.db)
       /\ banco' = out.db
       /\ emCurso' = [emCurso EXCEPT ![t] =
                        [fase |-> "fim", op |-> @.op, id |-> @.id, req |-> @.req,
                         antes |-> @.antes, durante |-> banco, depois |-> out.db,
                         err |-> out.err, ret |-> out.ret]]
  /\ UNCHANGED <<chamada, origem, rastreio, limites>>

\* The responses are delivered once no call is running.
Liberar ==
  /\ \A t \in Tarefas : emCurso[t].fase # "lido"
  /\ \E t \in Tarefas : emCurso[t].fase = "fim"
  /\ emCurso' = [t \in Tarefas |-> Livre]
  /\ UNCHANGED <<banco, chamada, origem, rastreio, limites>>

\* Order calls side by side: one customer, one product, creates of one
\* line, updates that set PAGO or submit one line with or without an id,
\* and deletes.
LimitesLadoALado ==
  [produtos |-> 1, clientes |-> 1, categorias |-> 0,
   pedidos |-> LadoPedidos, itens |-> LadoItemIds, estoque |-> LadoTeto]

InitLadoALado == Vazio /\ rastreio = FALSE /\ limites = LimitesLadoALado

LadoCreateData ==
  [clienteId : {1}, items : {<<[produtoId |-> 1, quantidade |-> q]>> : q \in 1..2}]

LadoUpdateData ==
  [status : {<<"PAGO">>}, items : {<<>>}]
  \cup [status : {<<>>},
        items : {<< <<[id |-> i, produtoId |-> 1, quantidade |-> q]>> >> :
                   i \in Opt(1..LadoItemIds), q \in 1..2}]

PedidoOps ==
  [op : {"pedido.create"}, id : {0}, req : LadoCreateData]
  \cup [op : {"pedido.update"}, id : 1..LadoPedidos, req : LadoUpdateData]
  \cup [op : {"pedido.delete"}, id : 1..LadoPedidos, req : {<<>>}]

NextLadoALado ==
  \/ TodasLivres /\ CriarCliente(ClienteUnico)
  \/ TodasLivres /\ CriarProduto([estoque : {LadoEstoque}, preco : PrecoFixo,
                                  categoriaId : {<<>>}])
  \/ Responder
  \/ \E t \in Tarefas : Iniciar(t, PedidoOps)
  \/ \E t \in Tarefas : Finalizar(t)
  \/ Liberar

SpecLadoALado == InitLadoALado /\ [][NextLadoALado]_vars

\* Inventory adjustments side by side on the products of SpecEstoque.
AjusteOps == [op : {"produto.estoque"}, id : 1..EstProdutos, req : Deltas]

NextAjustes ==
  \/ TodasLivres /\ CriarProduto([estoque : 0..1, preco : PrecoFixo,
                                  categoriaId : {<<>>}])
  \/ Responder
  \/ \E t \in Tarefas : Iniciar(t, AjusteOps)
  \/ \E t \in Tarefas : Finalizar(t)
  \/ Liberar

SpecAjustes == InitEstoque /\ [][NextAjustes]_vars

\* ------------------------------------------------------------ properties
\* A handler of kind op has just run.
Feita(op) == chamada.fase = "done" /\ chamada.op = op

\* A handler of kind op has just run and returned without an error.
FeitaOk(op) == Feita(op) /\ chamada.err = "ok"

\* The rows of the store (the id sequences left out).
Linhas(d) == <<d.produtos, d.clientes, d.categorias, d.pedidos, d.itens>>

EstoqueDe(d, p) == d.produtos[p].estoque

\* Sum of quantidade over the entries of a list that satisfy a test; the
\* test is the set of indexes that count.
RECURSIVE SomaQtd(_, _)
SomaQtd(items, idx) ==
  IF idx = {} THEN 0
  ELSE LET i == CHOOSE x \in idx : TRUE
       IN  items[i].quantidade + SomaQtd(items, idx \ {i})

\* Sum of quantidade over a set of stored lines.
RECURSIVE SomaLinhas(_, _)
SomaLinhas(d, ids) ==
  IF ids = {} THEN 0
  ELSE LET i == CHOOSE x \in ids : TRUE
       IN  d.itens[i].quantidade + SomaLinhas(d, ids \ {i})

\* Sum over the stored lines of an order of quantity * current price.
RECURSIVE ValorLinhas(_, _)
ValorLinhas(d, ids) ==
  IF ids = {} THEN 0
  ELSE LET i == CHOOSE x \in ids : TRUE
       IN  d.itens[i].quantidade * d.produtos[d.itens[i].produtoId].preco
           + ValorLinhas(d, ids \ {i})

TotalEmDia(d, id) == d.pedidos[id].total = ValorLinhas(d, ItensDoPedido(d, id))

\* The stored lines of order id that name product p.
LinhasDoProduto(d, id, p) == {i \in ItensDoPedido(d, id) : d.itens[i].produtoId = p}

\* The entries of a submitted list that name product p.
EntradasDoProduto(items, p) == {i \in 1..Len(items) : items[i].produtoId = p}

\* C1: in every reachable state every product's stock is >= 0, also after an
\* order create or update whose lines name the same product more than once.
C1_EstoqueNaoNegativo ==
  \A p \in DOMAIN banco.produtos : EstoqueDe(banco, p) >= 0

\* C2 as stated: after every successful order create or update, the update
\* that carries only a status included, the stored total is the sum over the
\* order's lines of quantity * current price.
C2_TotalAposTodoUpdate ==
  (FeitaOk("pedido.create") \/ FeitaOk("pedido.update"))
    => TotalEmDia(banco, chamada.ret)

\* C2 amended: after a successful order create, and after a successful order
\* update that carries lines, the stored total is the sum over the order's
\* lines of quantity * current price; an update without lines leaves the
\* stored total as it was.
C2_TotalAposLinhas ==
  /\ FeitaOk("pedido.create") => TotalEmDia(banco, chamada.ret)
  /\ FeitaOk("pedido.update") =>
       IF chamada.req.items # <<>>
         THEN TotalEmDia(banco, chamada.id)
         ELSE banco.pedidos[chamada.id].total
                = chamada.antes.pedidos[chamada.id].total

\* An update with lines has replaced a total that a price change had left
\* out of date.
C2_Witness ==
  /\ FeitaOk("pedido.update")
  /\ chamada.req.items # <<>>
  /\ ~TotalEmDia(chamada.antes, chamada.id)
  /\ ItensDoPedido(banco, chamada.id) # {}

C4_IdaEVolta ==
  (FeitaOk("pedido.delete") /\ chamada.id \in DOMAIN origem) =>
    /\ \A p \in DOMAIN origem[chamada.id] :
         EstoqueDe(banco, p) = origem[chamada.id][p]
    /\ chamada.id \notin DOMAIN banco.pedidos
    /\ ItensDoPedido(banco, chamada.id) = {}

\* C5: deleting an order whose status is not PENDENTE fails with the
\* only-pending error, deleting an unknown order id fails with the
\* order-not-found error, and both leave the store as it was.
C5_DeleteRecusado ==
  Feita("pedido.delete") =>
    LET a == chamada.antes IN
    /\ chamada.id \notin DOMAIN a.pedidos =>
         chamada.err = ErrPedido /\ banco = a
    /\ (chamada.id \in DOMAIN a.pedidos
          /\ a.pedidos[chamada.id].status # "PENDENTE") =>
         chamada.err = ErrSoPendentes /\ banco = a

\* The delete of an order that is not PENDENTE and has lines was refused.
C5_Witness ==
  /\ Feita("pedido.delete")
  /\ chamada.err = ErrSoPendentes
  /\ ItensDoPedido(banco, chamada.id) # {}

\* C6: an order update that fails leaves products, customers, orders (status
\* and total) and lines as they were before the call.
C6_UpdateFalhoNadaMuda ==
  (Feita("pedido.update") /\ chamada.err # "ok")
    => Linhas(banco) = Linhas(chamada.antes)

\* An update that carried a new status, removed a line and took stock for
\* its first submitted line (a kept line, quantity raised) failed for want
\* of stock on the second.
C6_Witness ==
  /\ Feita("pedido.update")
  /\ chamada.err = ErrEstoqueUpdate
  /\ chamada.req.status # <<>>
  /\ chamada.req.status[1] # chamada.antes.pedidos[chamada.id].status
  /\ chamada.req.items # <<>>
  /\ Len(chamada.req.items[1]) = 2
  /\ chamada.req.items[1][1].id # <<>>
  /\ chamada.req.items[1][1].id[1] \in ItensDoPedido(chamada.antes, chamada.id)
  /\ chamada.req.items[1][1].quantidade
       > chamada.antes.itens[chamada.req.items[1][1].id[1]].quantidade
  /\ IdsParaRemover(ItensDoPedido(chamada.antes, chamada.id),
                    chamada.req.items[1]) # {}

\* C7: the stock a line took is returned when the line is removed by an
\* update, when the order is deleted while PENDENTE and when the order's
\* status is set to CANCELADO: after a status-only update to CANCELADO of an
\* order that was not CANCELADO, every product's stock has grown by the
\* quantities of the order's lines of that product.
C7_CanceladoDevolve ==
  /\ FeitaOk("pedido.delete") =>
       \A p \in DOMAIN banco.produtos :
         EstoqueDe(banco, p) = EstoqueDe(chamada.antes, p)
           + SomaLinhas(chamada.antes, LinhasDoProduto(chamada.antes, chamada.id, p))
  /\ (/\ FeitaOk("pedido.update")
      /\ chamada.req.items = <<>>
      /\ chamada.req.status = <<"CANCELADO">>
      /\ chamada.antes.pedidos[chamada.id].status # "CANCELADO") =>
       \A p \in DOMAIN banco.produtos :
         EstoqueDe(banco, p) = EstoqueDe(chamada.antes, p)
           + SomaLinhas(chamada.antes, LinhasDoProduto(chamada.antes, chamada.id, p))

\* C8: in a successful order update that carries lines, every line of the
\* order whose id is not submitted is deleted, the lines whose id is
\* submitted stay, and a product that only removed lines name gains exactly
\* their quantities.
C8_RemoveAusentes ==
  (FeitaOk("pedido.update") /\ chamada.req.items # <<>>) =>
    LET a       == chamada.antes
        id      == chamada.id
        items   == chamada.req.items[1]
        atuais  == ItensDoPedido(a, id)
        ausente(l) == \A i \in 1..Len(items) : items[i].id # <<l>>
        tocado(p)  ==
          \E i \in 1..Len(items) :
            IF items[i].id # <<>> /\ items[i].id[1] \in atuais
              THEN a.itens[items[i].id[1]].produtoId = p
              ELSE items[i].produtoId = p
    IN  /\ \A l \in atuais :
             IF ausente(l)
               THEN l \notin DOMAIN banco.itens
               ELSE l \in ItensDoPedido(banco, id)
        /\ \A p \in DOMAIN a.produtos :
             ~tocado(p) =>
               EstoqueDe(banco, p) = EstoqueDe(a, p)
                 + SomaLinhas(a, {l \in LinhasDoProduto(a, id, p) : ausente(l)})

\* An update of an order with two lines kept one and removed the other.
C8_Witness ==
  /\ FeitaOk("pedido.update")
  /\ chamada.req.items # <<>>
  /\ \E l, k \in ItensDoPedido(chamada.antes, chamada.id) :
       /\ l \notin DOMAIN banco.itens
       /\ k \in DOMAIN banco.itens
       /\ EstoqueDe(banco, chamada.antes.itens[l].produtoId)
            > EstoqueDe(chamada.antes, chamada.antes.itens[l].produtoId)

\* The kept entries of an update: index i carries the id of a current line
\* of the order, no other entry carries that id, and nothing else in the
\* call touches the line's product (no removed line, no new line, no other
\* kept line of that product).
MantidoSozinho(a, id, items, i) ==
  /\ items[i].id # <<>>
  /\ items[i].id[1] \in ItensDoPedido(a, id)
  /\ LET k == items[i].id[1]
         p == a.itens[k].produtoId
     IN  /\ \A j \in 1..Len(items) : j # i =>
               /\ items[j].id # <<k>>
               /\ IF items[j].id # <<>> /\ items[j].id[1] \in ItensDoPedido(a, id)
                    THEN a.itens[items[j].id[1]].produtoId # p
                    ELSE items[j].produtoId # p
         /\ \A l \in LinhasDoProduto(a, id, p) : l \in IdsEnviados(items)

C10_CreateBaixaEstoque ==
  FeitaOk("pedido.create") =>
    LET a     == chamada.antes
        items == chamada.req.items
    IN  /\ DOMAIN banco.produtos = DOMAIN a.produtos
        /\ \A p \in DOMAIN a.produtos :
             EstoqueDe(a, p) - EstoqueDe(banco, p)
               = SomaQtd(items, EntradasDoProduto(items, p))

\* A create with two lines of one product succeeded while another product
\* exists.
C10_Witness ==
  /\ FeitaOk("pedido.create")
  /\ Len(chamada.req.items) = 2
  /\ chamada.req.items[1].produtoId = chamada.req.items[2].produtoId
  /\ Cardinality(DOMAIN banco.produtos) = 2

\* C11: every order that exists has at least one line: an order create with
\* an empty list of lines produces no order, and no order update leaves an
\* order without lines.
C11_PedidoTemLinha ==
  /\ \A id \in DOMAIN banco.pedidos : ItensDoPedido(banco, id) # {}
  /\ (Feita("pedido.create") /\ Len(chamada.req.items) = 0) =>
       chamada.err # "ok" /\ banco = chamada.antes

\* Order id of store d has exactly one line, of product p and quantity q.
UmaLinha(d, id, p, q) ==
  /\ id \in DOMAIN d.pedidos
  /\ Cardinality(ItensDoPedido(d, id)) = 1
  /\ \A l \in ItensDoPedido(d, id) :
       d.itens[l].produtoId = p /\ d.itens[l].quantidade = q

\* C12: the scenario.  With product P at stock 10 and price 5, a create with
\* the line {P, 3} succeeds and gives stock 7 and total 15; on that order
\* (one line {P, 3}, stock 7) an update whose list is the single line
\* {P, 5}, submitted with the line's id or with no id, succeeds and gives
\* stock 5, total 25 and the single line {P, 5}; deleting that order while
\* PENDENTE (one line {P, 5}, stock 5) succeeds, gives stock 10 and removes
\* the order and its lines.
C12_Cenario ==
  \A p \in DOMAIN banco.produtos :
    LET a == chamada.antes IN
    /\ (/\ Feita("pedido.create")
        /\ p \in DOMAIN a.produtos
        /\ a.produtos[p].estoque = 10 /\ a.produtos[p].preco = 5
        /\ chamada.req.clienteId \in DOMAIN a.clientes
        /\ chamada.req.items = <<[produtoId |-> p, quantidade |-> 3]>>) =>
         /\ chamada.err = "ok"
         /\ EstoqueDe(banco, p) = 7
         /\ banco.pedidos[chamada.ret].total = 15
         /\ UmaLinha(banco, chamada.ret, p, 3)
    /\ (/\ Feita("pedido.update")
        /\ UmaLinha(a, chamada.id, p, 3)
        /\ a.produtos[p].estoque = 7 /\ a.produtos[p].preco = 5
        /\ chamada.req.items # <<>>
        /\ Len(chamada.req.items[1]) = 1
        /\ chamada.req.items[1][1].produtoId = p
        /\ chamada.req.items[1][1].quantidade = 5
        /\ \/ chamada.req.items[1][1].id = <<>>
           \/ chamada.req.items[1][1].id[1] \in ItensDoPedido(a, chamada.id)) =>
         /\ chamada.err = "ok"
         /\ EstoqueDe(banco, p) = 5
         /\ banco.pedidos[chamada.id].total = 25
         /\ UmaLinha(banco, chamada.id, p, 5)
    /\ (/\ Feita("pedido.delete")
        /\ UmaLinha(a, chamada.id, p, 5)
        /\ a.pedidos[chamada.id].status = "PENDENTE"
        /\ a.produtos[p].estoque = 5) =>
         /\ chamada.err = "ok"
         /\ EstoqueDe(banco, p) = 10
         /\ chamada.id \notin DOMAIN banco.pedidos
         /\ ItensDoPedido(banco, chamada.id) = {}

\* The whole scenario has run with the update submitted without a line id:
\* the first order, created with line 1, was deleted holding only line 2 of
\* quantity 5, and the stock is back at 10; another run updated the line by
\* its id.
C12_Witness ==
  /\ FeitaOk("pedido.delete")
  /\ chamada.id = 1
  /\ ItensDoPedido(chamada.antes, 1) = {2}
  /\ chamada.antes.itens[2].quantidade = 5
  /\ EstoqueDe(chamada.antes, 1) = 5
  /\ EstoqueDe(banco, 1) = 10

\* The entries of a create request that name a product that does not exist.
SemProduto(a, items) == {i \in 1..Len(items) : items[i].produtoId \notin DOMAIN a.produtos}

\* The entries of a create request whose existing product lacks the stock.
SemEstoque(a, items) ==
  {i \in 1..Len(items) :
     /\ items[i].produtoId \in DOMAIN a.produtos
     /\ EstoqueDe(a, items[i].produtoId) < items[i].quantidade}

\* C13 as stated: an order create whose customer does not exist, or any of
\* whose lines names a product that does not exist, fails with a not-found
\* error and leaves no order, no line and no stock change.
C13_CreateNaoEncontrado ==
  (/\ Feita("pedido.create")
   /\ \/ chamada.req.clienteId \notin DOMAIN chamada.antes.clientes
      \/ SemProduto(chamada.antes, chamada.req.items) # {}) =>
    /\ chamada.err \in {ErrCliente, ErrProduto}
    /\ Linhas(banco) = Linhas(chamada.antes)

\* C13 amended: an order create whose customer does not exist fails with the
\* customer-not-found error; one whose customer exists and that names a
\* product that does not exist fails with the product-not-found error,
\* unless an earlier line names an existing product whose stock is below
\* its quantity, and then with the insufficient-stock error; in all these
\* cases the store is left as it was.
C13_CreateNaoEncontradoNaOrdem ==
  Feita("pedido.create") =>
    LET a     == chamada.antes
        items == chamada.req.items
        sem   == SemProduto(a, items)
    IN  /\ chamada.req.clienteId \notin DOMAIN a.clientes =>
             chamada.err = ErrCliente /\ banco = a
        /\ (chamada.req.clienteId \in DOMAIN a.clientes /\ sem # {}) =>
             /\ banco = a
             /\ chamada.err =
                  IF \E j \in SemEstoque(a, items) : \A i \in sem : j < i
                    THEN ErrEstoqueCreate
                    ELSE ErrProduto

\* A create failed with the product-not-found error on its second line, the
\* first line being one the stock covers, while a product exists with stock.
C13_Witness ==
  /\ Feita("pedido.create")
  /\ chamada.err = ErrProduto
  /\ Len(chamada.req.items) = 2
  /\ 1 \notin SemProduto(chamada.antes, chamada.req.items)
  /\ 2 \in SemProduto(chamada.antes, chamada.req.items)
  /\ banco = chamada.antes

\* C14: every insufficient-stock error of the order workflow, on create and
\* on update (new line, kept line with a raised quantity), names the product
\* and carries the available and the requested quantity.
C14_MensagemCompleta ==
  ((Feita("pedido.create") \/ Feita("pedido.update"))
     /\ EstoqueInsuficiente(chamada.err)) =>
    CamposDaMensagem(chamada.err) = {"nome", "disponivel", "solicitado"}

\* C15: an order update that carries only a status succeeds whatever the
\* order's current status and whatever the submitted status, sets the
\* order's status to it and leaves every other field of the order, the
\* order's lines, the customers and every product as they were.
C15_SoStatus ==
  (/\ Feita("pedido.update")
   /\ chamada.id \in DOMAIN chamada.antes.pedidos
   /\ chamada.req.items = <<>>
   /\ chamada.req.status # <<>>) =>
    /\ chamada.err = "ok"
    /\ banco.pedidos[chamada.id].status = chamada.req.status[1]
    /\ banco = [chamada.antes EXCEPT !.pedidos[chamada.id].status = chamada.req.status[1]]

\* An order with lines went back from CANCELADO to PENDENTE by an update
\* that carried only the status.
C15_Witness ==
  /\ FeitaOk("pedido.update")
  /\ chamada.req.items = <<>>
  /\ chamada.req.status = <<"PENDENTE">>
  /\ chamada.antes.pedidos[chamada.id].status = "CANCELADO"
  /\ banco.pedidos[chamada.id].status = "PENDENTE"
  /\ ItensDoPedido(banco, chamada.id) # {}

\* C16: an order's customer never changes after creation and a created
\* order starts PENDENTE: a successful create stores, under an order id not
\* in use before, the submitted customer id and the status PENDENTE, and no
\* request of any kind changes the customer id of an order that exists
\* before and after it.
C16_ClienteDoPedidoFixo ==
  /\ FeitaOk("pedido.create") =>
       /\ chamada.ret \notin DOMAIN chamada.antes.pedidos
       /\ chamada.ret \in DOMAIN banco.pedidos
       /\ banco.pedidos[chamada.ret].clienteId = chamada.req.clienteId
       /\ banco.pedidos[chamada.ret].status = "PENDENTE"
  /\ chamada.fase = "done" =>
       \A id \in DOMAIN chamada.antes.pedidos \cap DOMAIN banco.pedidos :
         banco.pedidos[id].clienteId = chamada.antes.pedidos[id].clienteId

\* The lines of an order of the second customer were replaced by an update
\* while the first customer exists, and the order is still the second
\* customer's.
C16_Witness ==
  /\ FeitaOk("pedido.update")
  /\ chamada.req.items # <<>>
  /\ 1 \in DOMAIN banco.clientes
  /\ chamada.antes.pedidos[chamada.id].clienteId = 2
  /\ banco.pedidos[chamada.id].clienteId = 2
  /\ ItensDoPedido(banco, chamada.id) # ItensDoPedido(chamada.antes, chamada.id)

\* The products of store d that name category c.
NaCategoria(d, c) == {p \in DOMAIN d.produtos : d.produtos[p].categoriaId = <<c>>}

\* C17: deleting a category that some product names fails with the
\* category-has-products error and leaves the store as it was; deleting an
\* existing category that no product names succeeds, removes the category
\* and leaves the products as they were; so every product's category exists.
C17_CategoriaComProdutos ==
  /\ \A p \in DOMAIN banco.produtos :
       \/ banco.produtos[p].categoriaId = <<>>
       \/ banco.produtos[p].categoriaId[1] \in DOMAIN banco.categorias
  /\ (Feita("categoria.delete") /\ chamada.id \in DOMAIN chamada.antes.categorias) =>
       LET a == chamada.antes IN
       IF NaCategoria(a, chamada.id) # {}
         THEN chamada.err = ErrCategoriaComProdutos /\ banco = a
         ELSE /\ chamada.err = "ok"
              /\ chamada.id \notin DOMAIN banco.categorias
              /\ banco = [a EXCEPT !.categorias = Del(@, chamada.id)]

\* The delete of a category was refused while a product named it, another
\* category existing that no product names.
C17_Witness ==
  /\ Feita("categoria.delete")
  /\ chamada.err = ErrCategoriaComProdutos
  /\ NaCategoria(banco, chamada.id) # {}
  /\ \E c \in DOMAIN banco.categorias : NaCategoria(banco, c) = {}

\* The customers of store d, other than `id`, that hold the email / the cpf.
OutrosComEmail(d, id, email) == ClienteComEmail(d, email) \ {id}
OutrosComCpf(d, id, cpf)     == ClienteComCpf(d, cpf) \ {id}

\* C18: no two customers share an email or a cpf.  A customer create with an
\* email or cpf in use fails with the email or cpf conflict error and leaves
\* the store as it was; a customer update that submits an email or cpf held
\* by another customer fails the same way; every other update of an
\* existing customer, one that resubmits the customer's own email or cpf
\* included, succeeds and stores the submitted fields.
C18_EmailCpfUnicos ==
  /\ \A c, e \in DOMAIN banco.clientes :
       c # e => /\ banco.clientes[c].email # banco.clientes[e].email
                /\ banco.clientes[c].cpf # banco.clientes[e].cpf
  /\ Feita("cliente.create") =>
       LET a == chamada.antes
           req == chamada.req
       IN  IF ClienteComEmail(a, req.email) # {}
             THEN chamada.err = ErrEmail /\ banco = a
           ELSE IF ClienteComCpf(a, req.cpf) # {}
             THEN chamada.err = ErrCpf /\ banco = a
           ELSE /\ chamada.err = "ok"
                /\ chamada.ret \notin DOMAIN a.clientes
                /\ banco.clientes[chamada.ret] = [email |-> req.email, cpf |-> req.cpf]
  /\ (Feita("cliente.update") /\ chamada.id \in DOMAIN chamada.antes.clientes) =>
       LET a == chamada.antes
           req == chamada.req
           id == chamada.id
       IN  IF req.email # <<>> /\ OutrosComEmail(a, id, req.email[1]) # {}
             THEN chamada.err = ErrEmail /\ banco = a
           ELSE IF req.cpf # <<>> /\ OutrosComCpf(a, id, req.cpf[1]) # {}
             THEN chamada.err = ErrCpf /\ banco = a
           ELSE /\ chamada.err = "ok"
                /\ banco.clientes[id].email =
                     IF req.email # <<>> THEN req.email[1] ELSE a.clientes[id].email
                /\ banco.clientes[id].cpf =
                     IF req.cpf # <<>> THEN req.cpf[1] ELSE a.clientes[id].cpf

\* With two customers in the store, an update that resubmitted a customer's
\* own email and cpf succeeded.
C18_Witness ==
  /\ FeitaOk("cliente.update")
  /\ Cardinality(DOMAIN banco.clientes) = 2
  /\ chamada.req.email = <<chamada.antes.clientes[chamada.id].email>>
  /\ chamada.req.cpf = <<chamada.antes.clientes[chamada.id].cpf>>

\* C19: a product is never deleted while an order line names it: every
\* line's product exists; deleting an existing product that some line names
\* fails with the product-has-orders error and leaves the store as it was;
\* deleting an existing product that no line names (the orders that named
\* it deleted, or their lines of it removed) succeeds and removes only the
\* product.
C19_ProdutoComLinhas ==
  /\ \A i \in DOMAIN banco.itens : banco.itens[i].produtoId \in DOMAIN banco.produtos
  /\ (Feita("produto.delete") /\ chamada.id \in DOMAIN chamada.antes.produtos) =>
       LET a == chamada.antes IN
       IF \E i \in DOMAIN a.itens : a.itens[i].produtoId = chamada.id
         THEN chamada.err = ErrProdutoComPedidos /\ banco = a
         ELSE /\ chamada.err = "ok"
              /\ banco = [a EXCEPT !.produtos = Del(@, chamada.id)]

\* The only product ever created was deleted after lines had been created
\* (all of them lines of that product) and were gone again, its stock back
\* at the value it was created with.
C19_Witness ==
  /\ FeitaOk("produto.delete")
  /\ chamada.antes.seqProduto = 2
  /\ chamada.antes.seqItem > 1
  /\ chamada.antes.itens = << >>
  /\ EstoqueDe(chamada.antes, chamada.id) = 2
  /\ banco.produtos = << >>

\* C20: a customer is never deleted while an order names it: every order's
\* customer exists; deleting an existing customer that has an order fails
\* with the customer-has-orders error and leaves the store as it was;
\* deleting an existing customer without orders succeeds and removes only
\* the customer.
C20_ClienteComPedidos ==
  /\ \A o \in DOMAIN banco.pedidos : banco.pedidos[o].clienteId \in DOMAIN banco.clientes
  /\ (Feita("cliente.delete") /\ chamada.id \in DOMAIN chamada.antes.clientes) =>
       LET a == chamada.antes IN
       IF \E o \in DOMAIN a.pedidos : a.pedidos[o].clienteId = chamada.id
         THEN chamada.err = ErrClienteComPedidos /\ banco = a
         ELSE /\ chamada.err = "ok"
              /\ banco = [a EXCEPT !.clientes = Del(@, chamada.id)]

\* The delete of a customer with an order was refused while another
\* customer, without orders, exists.
C20_Witness ==
  /\ Feita("cliente.delete")
  /\ chamada.err = ErrClienteComPedidos
  /\ \E o \in DOMAIN banco.pedidos : banco.pedidos[o].clienteId = chamada.id
  /\ \E c \in DOMAIN banco.clientes :
       \A o \in DOMAIN banco.pedidos : banco.pedidos[o].clienteId # c

\* Stock of product p plus the quantities of all stored lines of p.
EstoqueMaisLinhas(d, p) ==
  EstoqueDe(d, p) + SomaLinhas(d, {i \in DOMAIN d.itens : d.itens[i].produtoId = p})

\* C25: every order create, update and delete, successful or failed, leaves
\* for every product the quantity stock + (sum of the quantities of the
\* stored lines of that product) as it was, for any submitted list, lists
\* that repeat an existing line id included.
C25_EstoqueConservado ==
  (Feita("pedido.create") \/ Feita("pedido.update") \/ Feita("pedido.delete")) =>
    \A p \in DOMAIN chamada.antes.produtos :
      EstoqueMaisLinhas(banco, p) = EstoqueMaisLinhas(chamada.antes, p)

\* C30: an inventory adjustment run alone fails with "Produto nao encontrado"
\* when the product does not exist; fails with "Estoque insuficiente" and
\* changes nothing when stock + delta < 0; otherwise the product's stock
\* becomes stock + delta and nothing else in the store changes.
C30_AjusteSozinho ==
  Feita("produto.estoque") =>
    LET a  == chamada.antes
        id == chamada.id
        q  == chamada.req
    IN  IF id \notin DOMAIN a.produtos
          THEN chamada.err = ErrProduto /\ banco = a
        ELSE IF EstoqueDe(a, id) + q < 0
          THEN chamada.err = ErrEstoqueUpdate /\ banco = a
        ELSE /\ chamada.err = "ok"
             /\ EstoqueDe(banco, id) = EstoqueDe(a, id) + q
             /\ banco = [a EXCEPT !.produtos[id].estoque = EstoqueDe(banco, id)]

\* An adjustment took stock from one of two products of different prices.
C30_Witness ==
  /\ FeitaOk("produto.estoque")
  /\ chamada.req < 0
  /\ EstoqueDe(chamada.antes, chamada.id) + chamada.req > 0
  /\ \E o \in DOMAIN banco.produtos :
       /\ o # chamada.id
       /\ banco.produtos[o].preco # banco.produtos[chamada.id].preco

\* C27: an order update never changes the product of a kept line; when the
\* one submitted entry carries the id of a line of product p and names another
\* product, the stock check and the stock adjustment are those of p: the
\* update fails for lack of stock exactly when the raise exceeds the stock
\* of p (with the removed lines of p returned), and on success p's stock has
\* fallen by the raise while every other product only receives what its
\* removed lines return.
C27_ProdutoMantido ==
  (Feita("pedido.update") /\ chamada.id \in DOMAIN chamada.antes.pedidos
     /\ chamada.req.items # <<>>) =>
    LET a      == chamada.antes
        id     == chamada.id
        items  == chamada.req.items[1]
        atuais == ItensDoPedido(a, id)
    IN  /\ chamada.err = "ok" =>
             \A l \in atuais \cap IdsEnviados(items) :
               /\ l \in DOMAIN banco.itens
               /\ banco.itens[l].produtoId = a.itens[l].produtoId
               /\ banco.itens[l].pedidoId = id
        /\ (Len(items) = 1 /\ items[1].id # <<>> /\ items[1].id[1] \in atuais) =>
             LET k    == items[1].id[1]
                 p    == a.itens[k].produtoId
                 diff == items[1].quantidade - a.itens[k].quantidade
                 devolvido(x) == SomaLinhas(a, LinhasDoProduto(a, id, x) \ {k})
             IN  items[1].produtoId # p =>
                   IF diff > 0 /\ EstoqueDe(a, p) + devolvido(p) < diff
                     THEN /\ chamada.err = ErrEstoqueUpdate
                          /\ Linhas(banco) = Linhas(a)
                     ELSE /\ chamada.err = "ok"
                          /\ banco.itens[k] =
                               [a.itens[k] EXCEPT !.quantidade = items[1].quantidade]
                          /\ EstoqueDe(banco, p) = EstoqueDe(a, p) + devolvido(p) - diff
                          /\ \A x \in DOMAIN a.produtos \ {p} :
                               EstoqueDe(banco, x) = EstoqueDe(a, x) + devolvido(x)

\* A kept line was raised by an entry that names another existing product.
C27_Witness ==
  /\ FeitaOk("pedido.update")
  /\ chamada.req.items # <<>>
  /\ Len(chamada.req.items[1]) = 1
  /\ chamada.req.items[1][1].id # <<>>
  /\ chamada.req.items[1][1].id[1] \in ItensDoPedido(chamada.antes, chamada.id)
  /\ LET e == chamada.req.items[1][1]
         k == chamada.antes.itens[e.id[1]]
     IN  /\ e.produtoId # k.produtoId
         /\ e.produtoId \in DOMAIN banco.produtos
         /\ e.quantidade > k.quantidade

\* What a new line of product p and quantity q meets when `usado` units of
\* p were taken by the entries before it: a missing product, a stock below
\* the quantity, or nothing.
FalhaDaNova(a, id, p, q, usado) ==
  IF p \notin DOMAIN a.produtos THEN ErrProduto
  ELSE IF EstoqueDe(a, p) + SomaLinhas(a, LinhasDoProduto(a, id, p)) - usado < q
    THEN ErrEstoqueUpdate
  ELSE "ok"

\* C28: in an order update the removed lines return their stock before any
\* submitted line is checked, and the submitted lines are checked in request
\* order against what the lines before them left: an update that replaces
\* all lines of the order by one or two new lines succeeds exactly when
\* each new line, in order, fits stock + returned quantities - what the
\* line before it took, and otherwise fails with the error of the first line
\* that does not fit. Replacing a line of P of quantity q by a new line of
\* quantity r succeeds exactly when stock(P) + q >= r.
C28_RemoveAntes ==
  (Feita("pedido.update") /\ chamada.id \in DOMAIN chamada.antes.pedidos
     /\ chamada.req.items # <<>>) =>
    LET a      == chamada.antes
        id     == chamada.id
        items  == chamada.req.items[1]
        novas  == IdsEnviados(items) \cap ItensDoPedido(a, id) = {}
        f1     == FalhaDaNova(a, id, items[1].produtoId, items[1].quantidade, 0)
        f2     == FalhaDaNova(a, id, items[2].produtoId, items[2].quantidade,
                              IF items[2].produtoId = items[1].produtoId
                                THEN items[1].quantidade ELSE 0)
    IN  (novas /\ Len(items) \in {1, 2}) =>
          chamada.err = IF f1 # "ok" \/ Len(items) = 1 THEN f1 ELSE f2

\* A line was replaced by a new line that the stock alone did not cover.
C28_Witness ==
  /\ FeitaOk("pedido.update")
  /\ chamada.req.items # <<>>
  /\ Len(chamada.req.items[1]) = 1
  /\ IdsEnviados(chamada.req.items[1]) \cap ItensDoPedido(chamada.antes, chamada.id) = {}
  /\ ItensDoPedido(chamada.antes, chamada.id) # {}
  /\ EstoqueDe(chamada.antes, chamada.req.items[1][1].produtoId)
       < chamada.req.items[1][1].quantidade

\* The entries of a submitted list that carry no id of a current line of the
\* order: no id, an unknown id, or the id of a line of another order.
EntradasNovas(a, id, items) ==
  {i \in 1..Len(items) :
     items[i].id = <<>> \/ items[i].id[1] \notin ItensDoPedido(a, id)}

\* C26: an update of order O leaves every line and row of every other order
\* as it was, whether it succeeds or fails; when it succeeds, every submitted
\* entry whose id is not the id of a current line of O (no id, an unknown
\* id, the id of another order's line) has become a new line of O.
C26_OutrosPedidosIntactos ==
  (Feita("pedido.update") /\ chamada.id \in DOMAIN chamada.antes.pedidos
     /\ chamada.req.items # <<>>) =>
    LET a      == chamada.antes
        id     == chamada.id
        items  == chamada.req.items[1]
        novas  == ItensDoPedido(banco, id) \ DOMAIN a.itens
    IN  /\ \A l \in DOMAIN a.itens :
             a.itens[l].pedidoId # id =>
               l \in DOMAIN banco.itens /\ banco.itens[l] = a.itens[l]
        /\ \A o \in DOMAIN a.pedidos \ {id} :
             o \in DOMAIN banco.pedidos /\ banco.pedidos[o] = a.pedidos[o]
        /\ chamada.err = "ok" =>
             /\ Cardinality(novas) = Cardinality(EntradasNovas(a, id, items))
             /\ SomaLinhas(banco, novas) = SomaQtd(items, EntradasNovas(a, id, items))
             /\ \A l \in novas : banco.itens[l].pedidoId = id

\* An update of one order submitted the id of a line of the other order and
\* succeeded.
C26_Witness ==
  /\ FeitaOk("pedido.update")
  /\ chamada.req.items # <<>>
  /\ \E i \in 1..Len(chamada.req.items[1]) :
       /\ chamada.req.items[1][i].id # <<>>
       /\ chamada.req.items[1][i].id[1] \in DOMAIN chamada.antes.itens
       /\ chamada.antes.itens[chamada.req.items[1][i].id[1]].pedidoId # chamada.id
       /\ chamada.req.items[1][i].quantidade
            # chamada.antes.itens[chamada.req.items[1][i].id[1]].quantidade

\* C29: an order update that carries one line is decided by the lines and
\* the stock alone, whatever the order's status and whatever status the
\* call submits: it fails exactly when the raise of the kept line, or the
\* quantity of the new line, exceeds the stock with the removed lines
\* returned; when it succeeds the order has that one line, the product's
\* stock plus its lines is what it was, the total is the line's value and
\* the status is the submitted one, or the old one when none was submitted.
\* An order delete succeeds exactly when the status is PENDENTE.
C29_SemPortaoDeStatus ==
  /\ (Feita("pedido.update") /\ chamada.id \in DOMAIN chamada.antes.pedidos
        /\ chamada.req.items # <<>> /\ Len(chamada.req.items[1]) = 1) =>
       LET a      == chamada.antes
           id     == chamada.id
           e      == chamada.req.items[1][1]
           manter == e.id # <<>> /\ e.id[1] \in ItensDoPedido(a, id)
           p      == IF manter THEN a.itens[e.id[1]].produtoId ELSE e.produtoId
           outras == IF manter THEN ItensDoPedido(a, id) \ {e.id[1]}
                     ELSE ItensDoPedido(a, id)
           pede   == IF manter THEN e.quantidade - a.itens[e.id[1]].quantidade
                     ELSE e.quantidade
           falta  == /\ manter => pede > 0
                     /\ EstoqueDe(a, p) + SomaLinhas(a, outras) < pede
       IN  p \in DOMAIN a.produtos =>
             IF falta
               THEN chamada.err = ErrEstoqueUpdate /\ Linhas(banco) = Linhas(a)
               ELSE /\ chamada.err = "ok"
                    /\ Cardinality(ItensDoPedido(banco, id)) = 1
                    /\ SomaLinhas(banco, ItensDoPedido(banco, id)) = e.quantidade
                    /\ manter => ItensDoPedido(banco, id) = {e.id[1]}
                    /\ EstoqueMaisLinhas(banco, p) = EstoqueMaisLinhas(a, p)
                    /\ TotalEmDia(banco, id)
                    /\ banco.pedidos[id].status =
                         IF chamada.req.status # <<>> THEN chamada.req.status[1]
                         ELSE a.pedidos[id].status
  /\ (Feita("pedido.delete") /\ chamada.id \in DOMAIN chamada.antes.pedidos) =>
       (chamada.err = "ok" <=> chamada.antes.pedidos[chamada.id].status = "PENDENTE")

\* The lines of a cancelled or delivered order were replaced, with a change
\* of stock, by a call that also set a status.
C29_Witness ==
  /\ FeitaOk("pedido.update")
  /\ chamada.req.items # <<>>
  /\ Len(chamada.req.items[1]) = 1
  /\ chamada.antes.pedidos[chamada.id].status \in {"CANCELADO", "ENTREGUE"}
  /\ chamada.req.status # <<>>
  /\ chamada.req.status[1] \notin {"PENDENTE", chamada.antes.pedidos[chamada.id].status}
  /\ EstoqueDe(banco, 1) # EstoqueDe(chamada.antes, 1)

\* Both tasks have returned from calls that read the same store.
DoisFeitos(op1, op2) ==
  /\ emCurso[1].fase = "fim" /\ emCurso[2].fase = "fim"
  /\ emCurso[1].antes = emCurso[2].antes
  /\ \/ emCurso[1].op = op1 /\ emCurso[2].op = op2
     \/ emCurso[1].op = op2 /\ emCurso[2].op = op1

\* C24: two inventory adjustments of the same product that run side by side
\* lose no update: when both succeed the stock is the stock both read plus
\* the two deltas; and no stock is ever negative.
C24_AjustesSemPerda ==
  /\ \A p \in DOMAIN banco.produtos : EstoqueDe(banco, p) >= 0
  /\ (DoisFeitos("produto.estoque", "produto.estoque")
        /\ emCurso[1].id = emCurso[2].id
        /\ emCurso[1].err = "ok" /\ emCurso[2].err = "ok") =>
       EstoqueDe(banco, emCurso[1].id)
         = EstoqueDe(emCurso[1].antes, emCurso[1].id) + emCurso[1].req + emCurso[2].req

\* The units of its product that the call of a task asks from the stock,
\* by what the task read: the quantity of the line of a create; for an
\* update of one entry, the submitted quantity less the quantities of the
\* lines the order had (the raise of a kept line, or the new line, less what
\* the removed lines return); nothing otherwise.
Toma(c) ==
  IF c.op = "pedido.create" THEN c.req.items[1].quantidade
  ELSE IF c.op = "pedido.update" /\ c.req.items # <<>>
          /\ c.id \in DOMAIN c.antes.pedidos
    THEN LET e      == c.req.items[1][1]
         IN  e.quantidade - SomaLinhas(c.antes, ItensDoPedido(c.antes, c.id))
  ELSE 0

\* C21: when two order calls (create or update) that run side by side take
\* stock from the same product, each fitting the stock alone and both
\* together exceeding it, at most one succeeds; and no stock is ever
\* negative.
C21_BaixaSerializada ==
  /\ \A p \in DOMAIN banco.produtos : EstoqueDe(banco, p) >= 0
  /\ (/\ \/ DoisFeitos("pedido.create", "pedido.create")
         \/ DoisFeitos("pedido.create", "pedido.update")
         \/ DoisFeitos("pedido.update", "pedido.update")
      /\ 1 \in DOMAIN emCurso[1].antes.produtos
      /\ Toma(emCurso[1]) > 0 /\ Toma(emCurso[2]) > 0
      /\ Toma(emCurso[1]) <= EstoqueDe(emCurso[1].antes, 1)
      /\ Toma(emCurso[2]) <= EstoqueDe(emCurso[1].antes, 1)
      /\ Toma(emCurso[1]) + Toma(emCurso[2]) > EstoqueDe(emCurso[1].antes, 1)) =>
       ~(emCurso[1].err = "ok" /\ emCurso[2].err = "ok")

\* C22: an order delete that succeeds beside other calls deleted an order
\* whose stored status was PENDENTE when the delete wrote, and returned to
\* every product exactly the quantities of the lines the order had then.
C22_DeleteConsistente ==
  \A t \in Tarefas :
    (emCurso[t].fase = "fim" /\ emCurso[t].op = "pedido.delete"
       /\ emCurso[t].err = "ok") =>
      LET d  == emCurso[t].durante
          id == emCurso[t].id
      IN  /\ id \in DOMAIN d.pedidos
          /\ d.pedidos[id].status = "PENDENTE"
          /\ \A p \in DOMAIN d.produtos :
               EstoqueDe(emCurso[t].depois, p)
                 = EstoqueDe(d, p) + SomaLinhas(d, LinhasDoProduto(d, id, p))

\* C23: after two updates of the same order that ran side by side, for
\* every product the stock plus the quantities of its stored lines is what
\* it was before the two calls.
C23_UpdatesConservam ==
  (DoisFeitos("pedido.update", "pedido.update") /\ emCurso[1].id = emCurso[2].id) =>
    \A p \in DOMAIN emCurso[1].antes.produtos :
      EstoqueMaisLinhas(banco, p) = EstoqueMaisLinhas(emCurso[1].antes, p)
====
